---- MODULE Spec2Model ----
(***************************************************************************)
(* State machine of the App component of frontend/src/App.jsx: the search  *)
(* form, the fetchJobs handler with its two awaits, and the Previous/Next  *)
(* pagination buttons.                                                     *)
(***************************************************************************)
EXTENDS Integers, Sequences, FiniteSets, TLC

\* ---------------------------------------------------------------- bounds
MaxSearches == 2    \* fetchJobs calls in one behaviour (the mount call included)
MaxPresses == 3     \* clicks on an enabled Previous/Next button

\* ------------------------------------------------------ program constants
jobsPerPage == 10

ErrorMessage == "Unable to fetch jobs. Check backend is running and API key is set."

\* ------------------------------------------------------------ JSON values
\* A parsed JSON value.  Listing records are opaque and stand as integers.
\* jobs is <<>> when an object has no jobs property, <<v>> when it has.
Arr(s) == [kind |-> "array", items |-> s, jobs |-> <<>>]
JNull == [kind |-> "null", items |-> <<>>, jobs |-> <<>>]
JUndefined == [kind |-> "undefined", items |-> <<>>, jobs |-> <<>>]
Num(n) == [kind |-> "number", items |-> <<n>>, jobs |-> <<>>]
Obj(j) == [kind |-> "object", items |-> <<>>, jobs |-> j]
\* A body res.json() cannot parse, and the absence of a body.
Unparsable == [kind |-> "unparsable", items |-> <<>>, jobs |-> <<>>]
NoBody == [kind |-> "none", items |-> <<>>, jobs |-> <<>>]

Page3 == <<2, 1, 1>>
Page25 == [i \in 1..25 |-> i]
Page81 == [i \in 1..81 |-> i]

\* The bodies a 2xx response of the upstream may carry.
Bodies ==
  { Arr(<<>>), Arr(Page3), Arr(Page25), Arr(Page81),
    Obj(<<>>), Obj(<<Arr(Page3)>>), Obj(<<JNull>>), Obj(<<Num(5)>>),
    JNull, Num(5), Unparsable }

\* Array.isArray(v)
IsArray(v) == v.kind = "array"

\* JavaScript truthiness of v
Truthy(v) ==
  CASE v.kind \in {"null", "undefined"} -> FALSE
    [] v.kind = "number" -> v.items[1] # 0
    [] OTHER -> TRUE

\* Reading data.jobs throws a TypeError when data is null.
ReadJobsThrows(data) == data.kind \in {"null", "undefined"}

\* data.jobs, for a data that is not null
ReadJobs(data) ==
  IF data.kind = "object" /\ data.jobs # <<>> THEN data.jobs[1] ELSE JUndefined

\* s without the elements that repeat an earlier one
RECURSIVE Dedup(_)
Dedup(s) ==
  IF s = <<>> THEN <<>>
  ELSE LET front == Dedup(SubSeq(s, 1, Len(s) - 1))
           last == s[Len(s)]
       IN IF \E i \in DOMAIN front : front[i] = last THEN front
          ELSE Append(front, last)

\* A decode that drops repeated records.
jobsFromApi_Dedup(data) ==
  IF IsArray(data) THEN Arr(Dedup(data.items))
  ELSE IF Truthy(ReadJobs(data)) THEN ReadJobs(data) ELSE Arr(<<>>)

\* A decode that knows the bare-array shape only.
jobsFromApi_ArrayOnly(data) ==
  IF IsArray(data) THEN data ELSE Arr(<<>>)

\* Array.isArray(data) ? data : (data.jobs || [])
jobsFromApi(data) ==
  IF IsArray(data) THEN data
  ELSE IF Truthy(ReadJobs(data)) THEN ReadJobs(data) ELSE Arr(<<>>)

\* ---------------------------------------------------------- Query builder
\* JavaScript truthiness of a string
NonEmpty(str) == str # ""

\* A builder that tests the experience fields as numbers, so that "0" is
\* omitted like the empty string.
BuildParams_NumericTest(r, c, mn, mx) ==
  << <<"role", r>>, <<"city", c>> >>
    \o (IF mn \notin {"", "0"} THEN << <<"exp_min", mn>> >> ELSE <<>>)
    \o (IF mx \notin {"", "0"} THEN << <<"exp_max", mx>> >> ELSE <<>>)
    \o << <<"size", "50">> >>

\* new URLSearchParams({role, city}) followed by the three append calls
BuildParams(r, c, mn, mx) ==
  << <<"role", r>>, <<"city", c>> >>
    \o (IF NonEmpty(mn) THEN << <<"exp_min", mn>> >> ELSE <<>>)
    \o (IF NonEmpty(mx) THEN << <<"exp_max", mx>> >> ELSE <<>>)
    \o << <<"size", "50">> >>

\* The values typed into the form fields.
Roles == {"Software Engineer", ""}
Cities == {"Pune", "Navi Mumbai"}
Exps == {"", "0", "3"}

\* ------------------------------------------------------------------ state
VARIABLES
  role, city, expMin, expMax,   \* form fields
  jobs, currentPage,            \* result set and page number
  loading, error,               \* flags
  mounted,                      \* the mount effect has run
  calls,                        \* fetchJobs invocations, in call order
  requests,                     \* HTTP requests issued, in issue order
  completed,                    \* calls in the order they finished
  presses                       \* clicks on enabled pagination buttons

vars == << role, city, expMin, expMax, jobs, currentPage, loading, error,
           mounted, calls, requests, completed, presses >>

form == << role, city, expMin, expMax >>

Init ==
  /\ role = "Software Engineer"
  /\ city = "Pune"
  /\ expMin = ""
  /\ expMax = ""
  /\ jobs = Arr(<<>>)
  /\ currentPage = 1
  /\ loading = FALSE
  /\ error = ""
  /\ mounted = FALSE
  /\ calls = <<>>
  /\ requests = <<>>
  /\ completed = <<>>
  /\ presses = 0

\* --------------------------------------------------------------- rendering
\* jobs.slice(...).map(...) throws when jobs is not an array; with no error
\* boundary React then unmounts the tree and later state updates are dropped.
RenderThrows == ~IsArray(jobs)

Interactive == mounted /\ ~RenderThrows

\* jobs.length
Length == Len(jobs.items)

\* Math.ceil(jobs.length / jobsPerPage)
CeilPages == (Length + jobsPerPage - 1) \div jobsPerPage

PreviousDisabled == currentPage = 1
NextDisabled == currentPage = CeilPages

\* ------------------------------------------------------------- fetchJobs
InFlight(s) == calls[s].pc \in {"fetch", "json"}

\* Lines 22-35: the synchronous part up to the first await.
fetchJobs ==
  /\ Len(calls) < MaxSearches
  /\ loading' = TRUE
  /\ error' = ""
  /\ calls' = Append(calls, [pc |-> "fetch", body |-> NoBody, err |-> ""])
  /\ requests' = Append(requests,
        [call |-> Len(calls) + 1, params |-> BuildParams(role, city, expMin, expMax)])
  /\ UNCHANGED << form, jobs, currentPage, completed, presses >>

\* useEffect(() => { fetchJobs(); }, [])
Mount ==
  /\ ~mounted
  /\ mounted' = TRUE
  /\ fetchJobs

\* <form onSubmit={fetchJobs}>
Submit ==
  /\ Interactive
  /\ UNCHANGED mounted
  /\ fetchJobs

\* A catch block that also clears the list and the page number.
catchFinally_Clears(s, e) ==
  /\ calls' = [calls EXCEPT ![s].pc = "failed", ![s].err = e]
  /\ completed' = Append(completed, s)
  /\ IF RenderThrows
       THEN UNCHANGED << error, loading, jobs, currentPage >>
       ELSE /\ error' = ErrorMessage /\ loading' = FALSE
            /\ jobs' = Arr(<<>>) /\ currentPage' = 1
  /\ UNCHANGED << form, mounted, requests, presses >>

\* A catch block that sends the request once more before giving up.
catchFinally_Retries(s, e) ==
  IF Cardinality({i \in DOMAIN requests : requests[i].call = s}) < 2
    THEN /\ calls' = [calls EXCEPT ![s].pc = "fetch", ![s].body = NoBody]
         /\ requests' = Append(requests,
               [call |-> s, params |-> BuildParams(role, city, expMin, expMax)])
         /\ UNCHANGED << form, jobs, currentPage, loading, error, mounted,
                         completed, presses >>
    ELSE /\ calls' = [calls EXCEPT ![s].pc = "failed", ![s].err = e]
         /\ completed' = Append(completed, s)
         /\ IF RenderThrows
              THEN UNCHANGED << error, loading >>
              ELSE error' = ErrorMessage /\ loading' = FALSE
         /\ UNCHANGED << form, jobs, currentPage, mounted, requests, presses >>

\* A handler without the finally block: a failure leaves loading as it is.
catchFinally_NoFinally(s, e) ==
  /\ calls' = [calls EXCEPT ![s].pc = "failed", ![s].err = e]
  /\ completed' = Append(completed, s)
  /\ IF RenderThrows
       THEN UNCHANGED error
       ELSE error' = ErrorMessage
  /\ UNCHANGED << form, jobs, currentPage, loading, mounted, requests, presses >>

\* catch and finally of call s, entered with the exception e.
catchFinally(s, e) ==
  /\ calls' = [calls EXCEPT ![s].pc = "failed", ![s].err = e]
  /\ completed' = Append(completed, s)
  /\ IF RenderThrows
       THEN UNCHANGED << error, loading >>
       ELSE error' = ErrorMessage /\ loading' = FALSE
  /\ UNCHANGED << form, jobs, currentPage, mounted, requests, presses >>

\* await fetch(...) resolves with a 2xx response carrying some body.
FetchResolvesOk(s) ==
  /\ calls[s].pc = "fetch"
  /\ \E b \in Bodies : calls' = [calls EXCEPT ![s].pc = "json", ![s].body = b]
  /\ UNCHANGED << form, jobs, currentPage, loading, error, mounted, requests,
                  completed, presses >>

\* await fetch(...) resolves with a non-2xx response: throw new Error(...).
FetchResolvesNotOk(s) ==
  /\ calls[s].pc = "fetch"
  /\ catchFinally(s, "API error")

\* await fetch(...) rejects: the transport failed.
FetchRejects(s) ==
  /\ calls[s].pc = "fetch"
  /\ catchFinally(s, "NetworkError")

\* await res.json() rejects: the body is not JSON.
JsonRejects(s) ==
  /\ calls[s].pc = "json"
  /\ calls[s].body = Unparsable
  /\ catchFinally(s, "SyntaxError")

\* A store that drops the response of every call but the latest issued.
storeResults_LatestWins(s) ==
  /\ calls' = [calls EXCEPT ![s].pc = "ok"]
  /\ completed' = Append(completed, s)
  /\ IF RenderThrows
       THEN UNCHANGED << jobs, currentPage, loading >>
       ELSE IF s = Len(calls)
         THEN /\ jobs' = jobsFromApi(calls[s].body)
              /\ currentPage' = 1
              /\ loading' = FALSE
         ELSE UNCHANGED << jobs, currentPage, loading >>
  /\ UNCHANGED << form, error, mounted, requests, presses >>

\* A store that leaves the page number where it is.
storeResults_KeepsPage(s) ==
  /\ calls' = [calls EXCEPT ![s].pc = "ok"]
  /\ completed' = Append(completed, s)
  /\ IF RenderThrows
       THEN UNCHANGED << jobs, loading >>
       ELSE /\ jobs' = jobsFromApi(calls[s].body)
            /\ loading' = FALSE
  /\ UNCHANGED << form, currentPage, error, mounted, requests, presses >>

\* Lines 46-47 and finally: call s stores what it decoded.
storeResults(s) ==
  /\ calls' = [calls EXCEPT ![s].pc = "ok"]
  /\ completed' = Append(completed, s)
  /\ IF RenderThrows
       THEN UNCHANGED << jobs, currentPage, loading >>
       ELSE /\ jobs' = jobsFromApi(calls[s].body)
            /\ currentPage' = 1
            /\ loading' = FALSE
  /\ UNCHANGED << form, error, mounted, requests, presses >>

\* The requests call s has issued.
RequestsOf(s) == Cardinality({i \in DOMAIN requests : requests[i].call = s})

\* A handler that asks for the next page after a non-empty bare array, up to
\* three pages.
JsonResolves_PageLoop(s) ==
  /\ calls[s].pc = "json"
  /\ calls[s].body # Unparsable
  /\ IF ReadJobsThrows(calls[s].body)
       THEN catchFinally(s, "TypeError")
       ELSE IF IsArray(calls[s].body) /\ calls[s].body.items # <<>> /\ RequestsOf(s) < 3
         THEN /\ calls' = [calls EXCEPT ![s].pc = "fetch"]
              /\ requests' = Append(requests,
                    [call |-> s,
                     params |-> BuildParams(role, city, expMin, expMax)
                                  \o << <<"page", "next">> >>])
              /\ UNCHANGED << form, jobs, currentPage, loading, error, mounted,
                              completed, presses >>
         ELSE storeResults(s)

\* await res.json() resolves; line 44 throws on null, else lines 46-47.
JsonResolves(s) ==
  /\ calls[s].pc = "json"
  /\ calls[s].body # Unparsable
  /\ IF ReadJobsThrows(calls[s].body)
       THEN catchFinally(s, "TypeError")
       ELSE storeResults(s)

\* ------------------------------------------------------------ form fields
\* onChange={(e) => setRole(e.target.value)} and its three siblings
setRole(v) ==
  /\ Interactive /\ v # role
  /\ role' = v
  /\ UNCHANGED << city, expMin, expMax, jobs, currentPage, loading, error,
                  mounted, calls, requests, completed, presses >>

setCity(v) ==
  /\ Interactive /\ v # city
  /\ city' = v
  /\ UNCHANGED << role, expMin, expMax, jobs, currentPage, loading, error,
                  mounted, calls, requests, completed, presses >>

setExpMin(v) ==
  /\ Interactive /\ v # expMin
  /\ expMin' = v
  /\ UNCHANGED << role, city, expMax, jobs, currentPage, loading, error,
                  mounted, calls, requests, completed, presses >>

setExpMax(v) ==
  /\ Interactive /\ v # expMax
  /\ expMax' = v
  /\ UNCHANGED << role, city, expMin, jobs, currentPage, loading, error,
                  mounted, calls, requests, completed, presses >>

\* ------------------------------------------------------------- pagination
\* onClick={() => setCurrentPage(currentPage - 1)}; a disabled button fires nothing.
PressPrevious ==
  /\ Interactive
  /\ presses < MaxPresses
  /\ IF PreviousDisabled
       THEN UNCHANGED vars
       ELSE /\ currentPage' = currentPage - 1
            /\ presses' = presses + 1
            /\ UNCHANGED << form, jobs, loading, error, mounted, calls, requests,
                            completed >>

\* onClick={() => setCurrentPage(currentPage + 1)}
PressNext ==
  /\ Interactive
  /\ presses < MaxPresses
  /\ IF NextDisabled
       THEN UNCHANGED vars
       ELSE /\ currentPage' = currentPage + 1
            /\ presses' = presses + 1
            /\ UNCHANGED << form, jobs, loading, error, mounted, calls, requests,
                            completed >>

\* -------------------------------------------------------------- card list
\* seq.slice(from, to) for 0 <= from <= to: both ends are clipped to the length.
Slice(seq, from, to) ==
  LET lo == IF from > Len(seq) THEN Len(seq) ELSE from
      hi == IF to > Len(seq) THEN Len(seq) ELSE to
  IN IF hi <= lo THEN <<>> ELSE SubSeq(seq, lo + 1, hi)

\* A slice that takes the page number for a zero-based page index.
PageOf_ZeroBased(p) ==
  Slice(jobs.items, p * jobsPerPage, p * jobsPerPage + jobsPerPage)

\* Lines 147-149 with currentPage = p: start, end and jobs.slice(start, end).
PageOf(p) ==
  LET start == (p - 1) * jobsPerPage
      end == start + jobsPerPage
  IN Slice(jobs.items, start, end)

paginatedJobs == PageOf(currentPage)

\* ---------------------------------------------------------------- banners
\* {error && <div>...}
ShowsError == ~RenderThrows /\ error # ""

\* {!loading && !error && jobs.length === 0 && <div>No jobs found...}
ShowsEmpty == ~RenderThrows /\ ~loading /\ error = "" /\ Length = 0

\* {loading && <div>Loading jobs...}
ShowsLoading == ~RenderThrows /\ loading

\* ------------------------------------------------------------ salary cell
\* The salary fields of the listing record the integer n stands for.  Each
\* field is absent, 0 or an amount: the four base-3 digits of n - 1.
SalaryField(digit, amount) ==
  CASE digit = 0 -> JUndefined
    [] digit = 1 -> Num(0)
    [] OTHER -> Num(amount)

Listing(n) ==
  [salary_min |-> SalaryField(((n - 1) \div 27) % 3, 500000),
   salary_max |-> SalaryField(((n - 1) \div 9) % 3, 800000),
   salary_est_min |-> SalaryField(((n - 1) \div 3) % 3, 300000),
   salary_est_max |-> SalaryField((n - 1) % 3, 449000)]

\* (amount / 100000).toFixed(1), for amounts whose tenth is not a tie
toFixed1(amount) ==
  LET tenths == (amount + 5000) \div 10000
  IN ToString(tenths \div 10) \o "." \o ToString(tenths % 10)

\* formatINR: <<>> stands for the null it returns for a falsy amount.
formatINR(amount) ==
  IF ~Truthy(amount) THEN <<>>
  ELSE << toFixed1(amount.items[1]) \o " LPA" >>

\* a || b
Or(a, b) == IF Truthy(a) THEN a ELSE b

\* What a template literal and what a JSX child make of formatINR's result.
InTemplate(f) == IF f = <<>> THEN "null" ELSE f[1]
AsChild(f) == IF f = <<>> THEN "" ELSE f[1]

\* What React renders for the left operand that short-circuits an && chain:
\* nothing for undefined, null and false, the digits for a number.
ShortCircuited(v) ==
  IF v.kind = "number" THEN << [kind |-> "text", text |-> ToString(v.items[1])] >>
  ELSE <<>>

\* Lines 205-211; " - " stands for the en dash the source puts between blanks.
RealSalaryText(job) ==
  IF Truthy(job.salary_min) /\ Truthy(job.salary_max)
    THEN InTemplate(formatINR(job.salary_min)) \o " - "
           \o InTemplate(formatINR(job.salary_max))
  ELSE IF Truthy(job.salary_min)
    THEN "From " \o InTemplate(formatINR(job.salary_min))
  ELSE IF Truthy(job.salary_max)
    THEN "Up to " \o InTemplate(formatINR(job.salary_max))
  ELSE ""

\* Lines 182-222: the nodes rendered in the salary cell of a card, in order.
SalaryCell(job) ==
  LET hasRealSalary == Or(job.salary_min, job.salary_max)
      hasEst == Or(job.salary_est_min, job.salary_est_max)
  IN (IF Truthy(hasRealSalary)
        THEN << [kind |-> "real", text |-> "Salary: " \o RealSalaryText(job)] >>
        ELSE ShortCircuited(hasRealSalary))
     \o (IF Truthy(hasRealSalary) THEN <<>>
         ELSE IF Truthy(hasEst)
           THEN << [kind |-> "estimated",
                    text |-> "Estimated: " \o AsChild(formatINR(job.salary_est_min))
                               \o " - " \o AsChild(formatINR(job.salary_est_max))] >>
           ELSE ShortCircuited(hasEst))
     \o (IF ~Truthy(hasRealSalary) /\ ~Truthy(hasEst)
           THEN << [kind |-> "none", text |-> "Salary not available"] >>
           ELSE <<>>)

\* The salary cells of the cards on display.
cards == [i \in DOMAIN paginatedJobs |-> SalaryCell(Listing(paginatedJobs[i]))]

\* ---------------------------------------------------------- specification
\* The searches, their responses and the pagination.  The form fields feed
\* nothing but the request parameters; their edits are taken in NextQuery.
Next ==
  \/ Mount
  \/ Submit
  \/ \E s \in DOMAIN calls : FetchResolvesOk(s)
  \/ \E s \in DOMAIN calls : FetchResolvesNotOk(s)
  \/ \E s \in DOMAIN calls : FetchRejects(s)
  \/ \E s \in DOMAIN calls : JsonRejects(s)
  \/ \E s \in DOMAIN calls : JsonResolves(s)
  \/ PressPrevious
  \/ PressNext

Spec == Init /\ [][Next]_vars

\* The form and the requests it produces: the fields are edited and searches
\* are issued; what the upstream answers has no part in the parameters.
NextQuery ==
  \/ Mount
  \/ Submit
  \/ \E v \in Roles : setRole(v)
  \/ \E v \in Cities : setCity(v)
  \/ \E v \in Exps : setExpMin(v)
  \/ \E v \in Exps : setExpMax(v)

SpecQuery == Init /\ [][NextQuery]_vars

\* Every request that was issued is answered: its fetch settles, and so does
\* the reading of its body.
Resolves(s) ==
  /\ s \in DOMAIN calls
  /\ \/ FetchResolvesOk(s)
     \/ FetchResolvesNotOk(s)
     \/ FetchRejects(s)
     \/ JsonRejects(s)
     \/ JsonResolves(s)

\* The searches alone: the Previous and Next buttons read and write
\* currentPage only, and no search step reads it.
NextSearch ==
  \/ Mount
  \/ Submit
  \/ \E s \in DOMAIN calls : FetchResolvesOk(s)
  \/ \E s \in DOMAIN calls : FetchResolvesNotOk(s)
  \/ \E s \in DOMAIN calls : FetchRejects(s)
  \/ \E s \in DOMAIN calls : JsonRejects(s)
  \/ \E s \in DOMAIN calls : JsonResolves(s)

SpecFair ==
  Init /\ [][NextSearch]_vars /\ \A s \in 1..MaxSearches : WF_vars(Resolves(s))

\* ------------------------------------------------------------ properties
\* The keys of a parameter list, and the value a key is given.
ParamKeys(p) == {p[i][1] : i \in DOMAIN p}
ParamValue(p, k) == p[CHOOSE i \in DOMAIN p : p[i][1] = k][2]

\* Call s leaves its await on res.json() with the given outcome in this step.
JsonSettles(s, outcome) == calls[s].pc = "json" /\ calls'[s].pc = outcome

\* The two response contracts.
IsEnvelope(b) == b.kind = "object" /\ (b.jobs = <<>> \/ IsArray(b.jobs[1]))
EnvelopeJobs(b) == IF b.jobs = <<>> THEN Arr(<<>>) ELSE b.jobs[1]

\* The pages call s has fetched, in request order, and their concatenation.
PagesOf(s) == [i \in 1..RequestsOf(s) |-> calls[s].body.items]
RECURSIVE Flatten(_)
Flatten(pages) ==
  IF pages = <<>> THEN <<>>
  ELSE Flatten(SubSeq(pages, 1, Len(pages) - 1)) \o pages[Len(pages)]
RECURSIVE SumLen(_)
SumLen(pages) ==
  IF pages = <<>> THEN 0
  ELSE SumLen(SubSeq(pages, 1, Len(pages) - 1)) + Len(pages[Len(pages)])

\* C1 as stated: a search whose first response is a non-empty bare array goes
\* on to request page 2 (and page 3 after a non-empty page 2), so it has
\* issued at least two requests by the time it completes.
C1_PageLoop ==
  \A s \in DOMAIN calls :
    (calls[s].pc = "ok" /\ IsArray(calls[s].body) /\ calls[s].body.items # <<>>)
      => RequestsOf(s) >= 2

\* C1 amended: every search issues exactly one request, which carries no page
\* parameter, whether or not the bare array it receives is empty.
C1_SingleRequest ==
  /\ \A s \in DOMAIN calls : RequestsOf(s) = 1
  /\ \A i \in DOMAIN requests : "page" \notin ParamKeys(requests[i].params)

C1_Witness ==
  \E s \in DOMAIN calls :
    /\ calls[s].pc = "ok"
    /\ calls[s].body = Arr(Page25)
    /\ RequestsOf(s) = 1
    /\ jobs = Arr(Page25)

\* C2: when a search whose response is a bare array succeeds, the stored
\* result set is the concatenation of the pages it fetched, in request order,
\* duplicates kept, and its length is the sum of their lengths.
C2_Concatenation ==
  [][\A s \in DOMAIN calls :
       (JsonSettles(s, "ok") /\ IsArray(calls[s].body) /\ ~RenderThrows)
         => /\ jobs' = Arr(Flatten(PagesOf(s)))
            /\ Len(jobs'.items) = SumLen(PagesOf(s))]_vars

C2_Witness ==
  \E s \in DOMAIN calls :
    /\ calls[s].pc = "ok"
    /\ calls[s].body = Arr(Page3)
    /\ completed[Len(completed)] = s
    /\ jobs = Arr(<<2, 1, 1>>)

\* C3: a search whose first response is an envelope object issues exactly one
\* request, and on completing stores the envelope's jobs field, or the empty
\* sequence when the field is absent.
C3_Envelope ==
  /\ [](\A s \in DOMAIN calls : IsEnvelope(calls[s].body) => RequestsOf(s) = 1)
  /\ [][\A s \in DOMAIN calls :
          (calls[s].pc = "json" /\ calls'[s].pc # "json"
             /\ IsEnvelope(calls[s].body) /\ ~RenderThrows)
            => /\ calls'[s].pc = "ok"
               /\ jobs' = EnvelopeJobs(calls[s].body)]_vars

C3_Witness ==
  \E s \in DOMAIN calls :
    /\ calls[s].pc = "ok"
    /\ calls[s].body = Obj(<<Arr(Page3)>>)
    /\ completed[Len(completed)] = s
    /\ RequestsOf(s) = 1
    /\ jobs = Arr(Page3)

\* C4: the parameters of every request a search builds are role and city with
\* the form's values verbatim, size = 50, exp_min with the exact string iff
\* expMin is non-empty ("0" included), exp_max likewise, and no other key.
C4_Params ==
  [][requests' # requests =>
       LET p == requests'[Len(requests')].params IN
         /\ ParamKeys(p) = {"role", "city", "size"}
                             \cup (IF expMin # "" THEN {"exp_min"} ELSE {})
                             \cup (IF expMax # "" THEN {"exp_max"} ELSE {})
         /\ Len(p) = Cardinality(ParamKeys(p))
         /\ ParamValue(p, "role") = role
         /\ ParamValue(p, "city") = city
         /\ ParamValue(p, "size") = "50"
         /\ expMin # "" => ParamValue(p, "exp_min") = expMin
         /\ expMax # "" => ParamValue(p, "exp_max") = expMax]_vars

C4_Witness ==
  \E i \in DOMAIN requests :
    requests[i].params =
      << <<"role", "">>, <<"city", "Navi Mumbai">>, <<"exp_min", "0">>,
         <<"size", "50">> >>

\* C5: a search whose request fails, by a non-2xx status or at the transport,
\* ends with the error set to the fixed message, and no step of that search
\* (its start, its failure) changes the stored result set or the page number.
C5_FailureKeepsResults ==
  [][\A s \in DOMAIN calls' :
       /\ (s \notin DOMAIN calls) => (jobs' = jobs /\ currentPage' = currentPage)
       /\ (s \in DOMAIN calls /\ calls[s].pc = "fetch" /\ calls'[s].pc = "failed"
             /\ ~RenderThrows)
            => /\ calls'[s].err \in {"API error", "NetworkError"}
               /\ error' = ErrorMessage
               /\ jobs' = jobs
               /\ currentPage' = currentPage]_vars

C5_Witness ==
  \E s \in DOMAIN calls :
    /\ calls[s].pc = "failed"
    /\ calls[s].err = "API error"
    /\ completed[Len(completed)] = s
    /\ error = ErrorMessage
    /\ jobs = Arr(Page25)
    /\ currentPage = 3

\* A 2xx body that matches neither contract: not a sequence, and not an
\* object whose jobs field is a sequence.
Malformed(b) ==
  /\ b.kind \notin {"none", "array"}
  /\ ~(b.kind = "object" /\ b.jobs # <<>> /\ IsArray(b.jobs[1]))

\* C6 as stated: a search whose 2xx body matches neither contract completes
\* as a success, storing the empty sequence and setting no error.
C6_MalformedIsEmpty ==
  [][\A s \in DOMAIN calls :
       (calls[s].pc = "json" /\ calls'[s].pc # "json"
          /\ Malformed(calls[s].body) /\ ~RenderThrows)
         => /\ calls'[s].pc = "ok"
            /\ jobs' = Arr(<<>>)
            /\ error' = error]_vars

\* The last call to have completed successfully, 0 when there is none.
LastOk ==
  LET oks == {i \in DOMAIN completed : calls[completed[i]].pc = "ok"}
  IN IF oks = {} THEN 0
     ELSE completed[CHOOSE i \in oks : \A j \in oks : j <= i]

\* What a response in one of the two contracts holds.
ResultOf(b) == IF IsArray(b) THEN b ELSE EnvelopeJobs(b)
InContract(b) == IsArray(b) \/ IsEnvelope(b)

\* C7: each search that completes successfully overwrites the result set with
\* its own response whatever the other searches are doing, so the result set
\* is always that of the search that completed last, whichever was submitted
\* first.
C7_LastCompletionWins ==
  /\ [][\A s \in DOMAIN calls :
          (JsonSettles(s, "ok") /\ InContract(calls[s].body) /\ ~RenderThrows)
            => jobs' = ResultOf(calls[s].body)]_vars
  /\ []((LastOk # 0 /\ ~RenderThrows /\ InContract(calls[LastOk].body))
          => jobs = ResultOf(calls[LastOk].body))

C7_Witness ==
  /\ Len(calls) >= 2
  /\ completed = <<2, 1>>
  /\ calls[1].pc = "ok" /\ calls[1].body = Arr(Page25)
  /\ calls[2].pc = "ok" /\ calls[2].body = Arr(Page3)
  /\ jobs = Arr(Page25)

\* C8 as stated: the loading indicator is shown whenever at least one search
\* request is still in flight.
C8_LoadingWhileInFlight ==
  (Interactive /\ \E s \in DOMAIN calls : InFlight(s)) => loading

\* pageCount of the specification: ceil(len/pageSize), at least 1.
PageCount == IF CeilPages < 1 THEN 1 ELSE CeilPages

\* C9 as stated: 1 <= pageNumber <= pageCount in every reachable state.
C9_PageInRange ==
  Interactive => (1 <= currentPage /\ currentPage <= PageCount)

\* C10 as stated: a press of Previous at page 1 or of Next at pageCount
\* changes nothing; any other press moves pageNumber by exactly 1 and leaves
\* the result set, loading and error alone.
C10_NavigationNoOps ==
  [][(calls' = calls /\ form' = form) =>
       /\ currentPage = 1 => currentPage' >= currentPage
       /\ currentPage = PageCount => currentPage' <= currentPage
       /\ currentPage' \in {currentPage - 1, currentPage, currentPage + 1}
       /\ jobs' = jobs /\ loading' = loading /\ error' = error]_vars

\* C11 as stated: the page count the navigation controls use is
\* ceil(len(resultSet)/10) with a minimum of 1: 1 for an empty result set.
C11_PageCountAtLeastOne ==
  Interactive => CeilPages = PageCount

\* The records the claim places on page p: offsets (p-1)*10 up to but
\* excluding min(p*10, len), as one-based positions.
Smaller(a, b) == IF a < b THEN a ELSE b
ExpectedPage(p) ==
  [i \in 1..(Smaller(p * 10, Length) - (p - 1) * 10) |-> jobs.items[(p - 1) * 10 + i]]

\* C12: for every page number in 1..pageCount the displayed page is the
\* records at offsets (p-1)*10 .. min(p*10, len)-1 in result-set order, and
\* the pages 1..pageCount concatenated in order are the result set.
C12_PagesPartition ==
  ~RenderThrows =>
    /\ \A p \in 1..PageCount : PageOf(p) = ExpectedPage(p)
    /\ currentPage \in 1..PageCount => paginatedJobs = ExpectedPage(currentPage)
    /\ Flatten([p \in 1..PageCount |-> PageOf(p)]) = jobs.items

C12_Witness ==
  /\ Interactive
  /\ jobs = Arr(Page25)
  /\ currentPage = 3
  /\ paginatedJobs = <<21, 22, 23, 24, 25>>

\* C13: the step that stores a new result set sets pageNumber to 1 in the
\* same step, so the new result set is never held with the old page number.
C13_NewSearchResetsPage ==
  [][/\ \A s \in DOMAIN calls :
          (JsonSettles(s, "ok") /\ ~RenderThrows) => currentPage' = 1
     /\ jobs' # jobs => currentPage' = 1]_vars

C13_Witness ==
  /\ Len(calls) >= 2
  /\ completed = <<1, 2>>
  /\ calls[1].pc = "ok" /\ calls[1].body = Arr(Page25)
  /\ calls[2].pc = "ok" /\ calls[2].body = Arr(Page3)
  /\ presses = 2
  /\ jobs = Arr(Page3)
  /\ currentPage = 1

\* An amount that is present: neither absent nor 0.
Present(v) == v.kind = "number" /\ v.items[1] # 0

\* The one display the precedence rule gives a record, absent and 0 alike.
ExpectedKind(job) ==
  IF Present(job.salary_min) \/ Present(job.salary_max) THEN "real"
  ELSE IF Present(job.salary_est_min) \/ Present(job.salary_est_max) THEN "estimated"
  ELSE "none"

\* The real-salary text of a record whose amounts are 500000 and 800000.
ExpectedRealText(job) ==
  IF Present(job.salary_min) /\ Present(job.salary_max)
    THEN "Salary: 5.0 LPA - 8.0 LPA"
  ELSE IF Present(job.salary_min) THEN "Salary: From 5.0 LPA"
  ELSE "Salary: Up to 8.0 LPA"

\* C14 as stated: every record on display gets exactly one salary display,
\* chosen by the precedence real > estimated > not available, an amount of 0
\* counting as absent.
C14_OneSalaryDisplay ==
  ~RenderThrows =>
    \A i \in DOMAIN cards :
      LET job == Listing(paginatedJobs[i]) IN
        /\ Len(cards[i]) = 1
        /\ cards[i][1].kind = ExpectedKind(job)
        /\ ExpectedKind(job) = "real" => cards[i][1].text = ExpectedRealText(job)
        /\ ExpectedKind(job) = "none" => cards[i][1].text = "Salary not available"

\* The estimated range with "N/A" for a missing bound, the amounts being
\* 300000 and 449000.
ExpectedEstimatedText(job) ==
  "Estimated: "
    \o (IF Present(job.salary_est_min) THEN "3.0 LPA" ELSE "N/A")
    \o " - "
    \o (IF Present(job.salary_est_max) THEN "4.5 LPA" ELSE "N/A")

\* C15 as stated: a record with no real salary and exactly one estimated
\* bound shows the present bound formatted and "N/A" for the missing one.
C15_MissingBoundMarked ==
  ~RenderThrows =>
    \A i \in DOMAIN cards :
      LET job == Listing(paginatedJobs[i]) IN
        (/\ ~Present(job.salary_min) /\ ~Present(job.salary_max)
         /\ Present(job.salary_est_min) # Present(job.salary_est_max))
          => \E k \in DOMAIN cards[i] :
               /\ cards[i][k].kind = "estimated"
               /\ cards[i][k].text = ExpectedEstimatedText(job)

\* On records that carry no explicit 0 the cell is the one display of the
\* precedence rule, and two present estimates give the full range.
SalaryCellWithoutZero ==
  \A n \in 1..81 :
    LET job == Listing(n)
        cell == SalaryCell(job)
    IN (\A f \in {job.salary_min, job.salary_max, job.salary_est_min,
                  job.salary_est_max} : f # Num(0))
         => /\ Len(cell) = 1
            /\ cell[1].kind = ExpectedKind(job)
            /\ ExpectedKind(job) = "real" => cell[1].text = ExpectedRealText(job)
            /\ ExpectedKind(job) = "none" => cell[1].text = "Salary not available"
            /\ (Present(job.salary_est_min) /\ Present(job.salary_est_max)
                  /\ ExpectedKind(job) = "estimated")
                 => cell[1].text = ExpectedEstimatedText(job)

\* C16 as stated: while the error banner is shown no listing card is rendered.
C16_ErrorHidesCards ==
  ShowsError => cards = <<>>

\* C17 as stated: the empty-state message is shown only when some search has
\* completed without error, the result set is empty, and no search request is
\* in flight.
C17_EmptyStateOnlyAfterSearch ==
  ShowsEmpty =>
    /\ \E s \in DOMAIN calls : calls[s].pc = "ok"
    /\ \A s \in DOMAIN calls : ~InFlight(s)
    /\ Length = 0

\* Call s is in flight and no other call is.
Sole(s) == InFlight(s) /\ \A o \in DOMAIN calls \ {s} : ~InFlight(o)

\* C18: requests are issued only by the start of a search, one each, so a
\* failure is followed by no request of its own; and a search submitted after
\* a failure runs as any other: its start clears the error, nothing but its
\* own failure sets the error while it is the only search in flight, and its
\* success leaves the error cleared, loading false, the result set replaced
\* and pageNumber = 1.
C18_NoRetryStaysUsable ==
  /\ [](\A s \in DOMAIN calls : calls[s].pc = "failed" => RequestsOf(s) = 1)
  /\ [][/\ requests' # requests =>
             /\ Len(calls') = Len(calls) + 1
             /\ requests' = Append(requests, requests'[Len(requests')])
             /\ requests'[Len(requests')].call = Len(calls')
        /\ Len(calls') > Len(calls) => (error' = "" /\ loading' = TRUE)
        /\ \A s \in DOMAIN calls :
             (Sole(s) /\ Len(calls') = Len(calls))
               => (error' = error \/ calls'[s].pc = "failed")
        /\ \A s \in DOMAIN calls :
             (Sole(s) /\ JsonSettles(s, "ok") /\ InContract(calls[s].body)
                /\ ~RenderThrows)
               => /\ error' = error
                  /\ loading' = FALSE
                  /\ jobs' = ResultOf(calls[s].body)
                  /\ currentPage' = 1]_vars

C18_Witness ==
  /\ Len(calls) >= 2
  /\ completed = <<1, 2>>
  /\ calls[1].pc = "failed"
  /\ calls[2].pc = "ok" /\ calls[2].body = Arr(Page3)
  /\ Len(requests) = 2
  /\ error = "" /\ loading = FALSE
  /\ jobs = Arr(Page3) /\ currentPage = 1

\* C19 as stated: the error banner is shown only if the search that completed
\* most recently failed.
C19_ErrorOnlyAfterLastFailed ==
  ShowsError =>
    /\ completed # <<>>
    /\ calls[completed[Len(completed)]].pc = "failed"

Pending(s) == s \in DOMAIN calls /\ InFlight(s)
Finished(s) == s \in DOMAIN calls /\ ~InFlight(s)

\* C20: every search that is started finishes, every request being answered,
\* and the step that finishes it leaves loading false, whatever the outcome;
\* with no search in flight loading is false.
C20_SearchFinishes ==
  /\ \A s \in 1..MaxSearches : Pending(s) ~> (Finished(s) /\ loading = FALSE)
  /\ [][\A s \in DOMAIN calls :
          (InFlight(s) /\ calls'[s].pc \in {"ok", "failed"}) => loading' = FALSE]_vars
  /\ []((\A s \in DOMAIN calls : ~InFlight(s)) => loading = FALSE)

C20_Witness ==
  /\ Len(calls) = 1
  /\ calls[1].pc = "failed" /\ calls[1].err = "SyntaxError"
  /\ loading = FALSE
====
